---- MODULE Spec2Model ----
(***************************************************************************)
(* Statistics and progress aggregation of the fitness/nutrition backend:   *)
(* GET /api/user/stats (calculateUserStats, src/api/user.mjs) and          *)
(* GET /api/progress (src/api/progress.mjs) over the PostgreSQL tables     *)
(* created by initDatabase (src/config/database.mjs).                      *)
(*                                                                         *)
(* Time is counted in half days ("ticks") since 2024-01-01T00:00Z, so that *)
(* a timestamp and the calendar day it falls on are different things; a    *)
(* calendar day is a day ordinal (0 = 2024-01-01).  The server process and *)
(* the database session are taken to run in UTC.                           *)
(***************************************************************************)
EXTENDS Integers, Sequences, FiniteSets

\* ------------------------------------------------------------------ bounds
MaxWorkouts == 3
MaxFoods == 1
MaxSeriesRows == 2

Users == {1, 2}
\* candidate workout days: 2024-01-01, 2024-12-01, 2024-12-29 .. 2024-12-31
Days == {0, 335, 363, 364, 365}
\* candidate logging instants: 2024-12-30 noon, 2024-12-31 midnight
FoodTicks == {729, 730}
\* candidate instants of the request: 2024-12-31 midnight and noon
NowTicks == {730, 731}
Durations == {45}
\* what POST /log stores for one food: rounded calories, protein, carbs, fats
Foods == {[calories |-> 500, protein |-> 30, carbs |-> 60, fats |-> 20]}
\* days of the result sets the series are built from:
\* 2024-01-01 Mon, 01-02 Tue, 01-03 Wed, 01-05 Fri, 02-05 Mon
SeriesDays == {0, 1, 2, 4, 35}

\* midnight (UTC) of calendar day d, and the calendar day of instant t
Midnight(d) == 2 * d
DayOf(t) == t \div 2

\* ---------------------------------------------------------------- calendar
IsLeap(y) == (y % 4 = 0 /\ y % 100 # 0) \/ y % 400 = 0

MonthLength(y, m) ==
  IF m = 2 THEN (IF IsLeap(y) THEN 29 ELSE 28)
  ELSE IF m \in {4, 6, 9, 11} THEN 30 ELSE 31

RECURSIVE CivilFrom(_, _, _)
\* year, month and day of month of the day n days after y-m-01
CivilFrom(n, y, m) ==
  IF n < MonthLength(y, m) THEN [year |-> y, month |-> m, day |-> n + 1]
  ELSE IF m = 12 THEN CivilFrom(n - MonthLength(y, m), y + 1, 1)
  ELSE CivilFrom(n - MonthLength(y, m), y, m + 1)

Civil(d) == CivilFrom(d, 2024, 1)

\* 0 = Sunday; 2024-01-01 is a Monday
Weekday(d) == (d + 1) % 7

\* the char codes of the names Date.prototype.toString prints
DayNames == << <<83, 117, 110>>, <<77, 111, 110>>, <<84, 117, 101>>,
               <<87, 101, 100>>, <<84, 104, 117>>, <<70, 114, 105>>,
               <<83, 97, 116>> >>

MonthNames == << <<74, 97, 110>>, <<70, 101, 98>>, <<77, 97, 114>>,
                 <<65, 112, 114>>, <<77, 97, 121>>, <<74, 117, 110>>,
                 <<74, 117, 108>>, <<65, 117, 103>>, <<83, 101, 112>>,
                 <<79, 99, 116>>, <<78, 111, 118>>, <<68, 101, 99>> >>

Digit(n) == 48 + n

\* String(date): "Www Mmm DD YYYY"; what follows (time of day, zone) is the
\* same text for every DATE value read from the store
DateToString(date) ==
  LET c == Civil(date.day)
  IN DayNames[Weekday(date.day) + 1] \o <<32>> \o MonthNames[c.month] \o <<32>>
     \o <<Digit(c.day \div 10), Digit(c.day % 10)>> \o <<32>>
     \o <<Digit(c.year \div 1000), Digit((c.year \div 100) % 10),
          Digit((c.year \div 10) % 10), Digit(c.year % 10)>>

\* date.toISOString().split("T")[0]
ToISODate(date) ==
  LET c == Civil(date.day) IN <<c.year, c.month, c.day>>

RECURSIVE StringLess(_, _)
\* a < b on strings: code unit order, a proper prefix first
StringLess(a, b) ==
  IF b = <<>> THEN FALSE
  ELSE IF a = <<>> THEN TRUE
  ELSE IF Head(a) # Head(b) THEN Head(a) < Head(b)
  ELSE StringLess(Tail(a), Tail(b))

\* ------------------------------------------------------------ JS helpers
\* node-postgres hands bigint and numeric aggregates (COUNT, SUM, AVG) to
\* the handler as text
SqlText(n) == [text |-> n]

\* parseInt(v) / parseFloat(v) of such a text
ParseNumber(v) == v.text

\* x || 0 on a number
OrZero(x) == IF x = 0 THEN 0 ELSE x

RECURSIVE Gcd(_, _)
Gcd(a, b) == IF b = 0 THEN a ELSE Gcd(b, a % b)

\* a / b of two non-negative numbers, b > 0, as a reduced fraction
Divide(a, b) ==
  LET g == Gcd(a, b) IN [num |-> a \div g, den |-> b \div g]

Zero == [num |-> 0, den |-> 1]

RECURSIVE SumSeq(_)
SumSeq(s) == IF s = <<>> THEN 0 ELSE Head(s) + SumSeq(Tail(s))

RECURSIVE SumSet(_)
SumSet(S) ==
  IF S = {} THEN 0
  ELSE LET x == CHOOSE y \in S : TRUE IN x[2] + SumSet(S \ {x})

Range(s) == {s[i] : i \in 1..Len(s)}

Max(S) == CHOOSE x \in S : \A y \in S : y <= x

RECURSIVE SortAsc(_)
\* the elements of a set of integers in ascending order
SortAsc(S) ==
  IF S = {} THEN <<>>
  ELSE LET m == CHOOSE x \in S : \A y \in S : x <= y
       IN <<m>> \o SortAsc(S \ {m})


\* ------------------------------------------------------------------- state
VARIABLES
  workout_logs,       \* table workout_logs: rows [id, user_id, date, duration]
  workout_exercises,  \* table workout_exercises: [id, workout_id, exercise_name, weight]
  food_logs,          \* table food_logs: [id, user_id, logged_at, calories, ...]
  users,              \* table users: [id]
  user_preferences,   \* table user_preferences: [user_id, theme, units, notifications]
  daily_goals,        \* table daily_goals: [user_id, calorie_goal, ...]
  meal_templates,     \* table meal_templates: [id, user_id, name, foods]
  now,                \* NOW() of the store, in ticks
  checkedOut,         \* connections of the pool currently held by a handler
  pc,                 \* where the request in flight stands
  req,                \* the request in flight: handler, req.user.id, req.query.range
  qi,                 \* calculateUserStats: the query it awaits (1..5)
  timeFilter,         \* GET /progress: the interval chosen by the switch, in days
  workouts,           \* GET /progress: workouts.rows
  nutrition,          \* GET /progress: nutrition.rows
  stats,              \* calculateUserStats: the values computed so far
  fault,              \* the store operation that failed during this request
  res,                \* what the caller received
  parked,             \* the other request in flight, held at its await
  first,              \* what the caller of the request before this one received
  calories_rows,      \* the rows a food_logs with a date column answers the
                      \* daily calories statement of calculateUserStats with
  clients,            \* the connections of the pool the writing handlers use:
                      \* held or free, in a transaction or not, uncommitted writes
  calls               \* the calls of writing handlers in flight, by slot

vars == <<workout_logs, workout_exercises, food_logs, users, user_preferences,
          daily_goals, meal_templates, now, checkedOut, pc, req,
          qi, timeFilter, workouts, nutrition, stats, fault, res,
          parked, first, calories_rows, clients, calls>>

\* the tables initializeDatabase creates that hold rows of a user
tables == <<workout_logs, workout_exercises, food_logs, users, user_preferences,
            daily_goals, meal_templates>>

store == <<tables, now>>

\* a statement that clears the workouts, as DELETE /account sends
DeleteFrom ==
  /\ workout_logs' = {}
  /\ UNCHANGED <<workout_exercises, food_logs, users, user_preferences,
                 daily_goals, meal_templates>>

\* every statement the two handlers send is a SELECT: answered or rejected, it
\* leaves the rows of every table as they are
Select == UNCHANGED tables

\* the columns CREATE TABLE gives the two event tables
WorkoutLogsColumns ==
  {"id", "user_id", "name", "date", "duration", "notes", "created_at", "updated_at"}

FoodLogsColumns ==
  {"id", "user_id", "food_name", "serving_size", "calories", "protein", "carbs",
   "fats", "logged_at", "created_at"}

ExerciseNames == {"Squat"}
Ranges == {"week", "month", "year", "decade", "undefined"}

\* a result of client.query: rows, or the error it rejects with
Rows(rows) == [ok |-> TRUE, rows |-> rows]
QueryError == [ok |-> FALSE, rows |-> <<>>]

\* the Date object node-postgres builds for a DATE value; every row gets an
\* object of its own
NewDate(src, i, d) == [ref |-> <<src, i>>, day |-> d]

\* date >= NOW() - INTERVAL 'n days' on a DATE column
InTimeFilter(d, n) == Midnight(d) >= now - Midnight(n)

\* the switch with the week and year intervals exchanged
TimeFilterSwapped(range) ==
  CASE range = "week" -> 365
    [] range = "month" -> 30
    [] range = "year" -> 7
    [] OTHER -> 30

\* the switch with a default that falls into the first case
TimeFilterDefaultWeek(range) ==
  CASE range = "week" -> 7
    [] range = "month" -> 30
    [] range = "year" -> 365
    [] OTHER -> 7

\* ---- GET /progress: the switch on req.query.range
TimeFilter(range) ==
  CASE range = "week" -> 7
    [] range = "month" -> 30
    [] range = "year" -> 365
    [] OTHER -> 30

\* ---- GET /progress: the check of information_schema.tables
TablesExist == [workout_exists |-> TRUE, food_exists |-> TRUE]

\* ---- GET /progress: SELECT date::date, COUNT(*), SUM(duration) FROM workout_logs
\*      WHERE user_id = $1 AND date >= ... GROUP BY date::date ORDER BY date::date
WorkoutsQuery(userId, n) ==
  LET sel == {w \in workout_logs : w.user_id = userId /\ InTimeFilter(w.date, n)}
      days == SortAsc({w.date : w \in sel})
  IN Rows([i \in 1..Len(days) |->
       LET grp == {w \in sel : w.date = days[i]}
       IN [date |-> NewDate("workouts", i, days[i]),
           workout_count |-> SqlText(Cardinality(grp)),
           total_duration |-> SqlText(SumSet({<<w.id, w.duration>> : w \in grp}))]])

\* ---- GET /progress: SELECT date::date, SUM(calories), ... FROM food_logs
\*      WHERE user_id = $1 AND date >= ... GROUP BY date::date ORDER BY date::date
NutritionQuery(userId, n) ==
  IF "date" \notin FoodLogsColumns THEN QueryError
  ELSE
    LET sel == {f \in food_logs : f.user_id = userId /\ InTimeFilter(f["date"], n)}
        days == SortAsc({f["date"] : f \in sel})
    IN Rows([i \in 1..Len(days) |->
         LET grp == {f \in sel : f["date"] = days[i]}
         IN [date |-> NewDate("nutrition", i, days[i]),
             total_calories |-> SqlText(SumSet({<<f.id, f.calories>> : f \in grp})),
             total_protein |-> SqlText(SumSet({<<f.id, f.protein>> : f \in grp})),
             total_carbs |-> SqlText(SumSet({<<f.id, f.carbs>> : f \in grp})),
             total_fats |-> SqlText(SumSet({<<f.id, f.fats>> : f \in grp}))]])


\* ---- GET /progress: the body sent when there is nothing to show
EmptyProgress ==
  [kind |-> "progress",
   workouts |-> [dates |-> <<>>, durations |-> <<>>, counts |-> <<>>],
   nutrition |-> [dates |-> <<>>, calories |-> <<>>, protein |-> <<>>,
                  carbs |-> <<>>, fats |-> <<>>],
   metrics |-> [totalWorkouts |-> 0, avgDuration |-> Zero,
                totalCalories |-> 0, avgCalories |-> Zero]]

\* SameValueZero on two Date objects: the same object
SameValueZero(a, b) == a.ref = b.ref

RECURSIVE NewSet(_, _)
\* [...new Set(items)]: the items in order of first insertion
NewSet(items, acc) ==
  IF items = <<>> THEN acc
  ELSE IF \E i \in 1..Len(acc) : SameValueZero(acc[i], Head(items))
       THEN NewSet(Tail(items), acc)
       ELSE NewSet(Tail(items), Append(acc, Head(items)))

\* the comparison Array.prototype.sort() uses without a comparator
DefaultLess(a, b) == StringLess(DateToString(a), DateToString(b))

RECURSIVE InsertSorted(_, _)
\* x put behind every element that is not greater (the sort is stable)
InsertSorted(sorted, x) ==
  IF sorted = <<>> THEN <<x>>
  ELSE IF DefaultLess(x, Head(sorted)) THEN <<x>> \o sorted
  ELSE <<Head(sorted)>> \o InsertSorted(Tail(sorted), x)

RECURSIVE ArraySort(_)
\* items.sort()
ArraySort(items) ==
  IF items = <<>> THEN <<>>
  ELSE InsertSorted(ArraySort(SubSeq(items, 1, Len(items) - 1)), items[Len(items)])

\* const dates = [...new Set([...workouts.rows.map(date), ...nutrition.rows.map(date)])].sort()
Dates(w, n) ==
  ArraySort(NewSet([i \in 1..Len(w) |-> w[i].date] \o [i \in 1..Len(n) |-> n[i].date],
                   <<>>))

\* rows.find(r => r.date.toISOString().split("T")[0] === date.toISOString().split("T")[0]):
\* the index of the first such row, 0 for undefined
Find(rows, date) ==
  IF \E i \in 1..Len(rows) : ToISODate(rows[i].date) = ToISODate(date)
  THEN CHOOSE i \in 1..Len(rows) :
         /\ ToISODate(rows[i].date) = ToISODate(date)
         /\ \A j \in 1..(i - 1) : ToISODate(rows[j].date) # ToISODate(date)
  ELSE 0

\* the series read off the result rows by position instead of by day
SeriesByPosition(dates, rows, field) ==
  [i \in 1..Len(dates) |->
     IF i <= Len(rows) THEN OrZero(ParseNumber(rows[i][field])) ELSE 0]

\* dates.map(date => { const r = rows.find(...); return r ? parseInt(r[field]) || 0 : 0 })
Series(dates, rows, field) ==
  [i \in 1..Len(dates) |->
     LET k == Find(rows, dates[i])
     IN IF k # 0 THEN OrZero(ParseNumber(rows[k][field])) ELSE 0]

\* rows.reduce((sum, row) => sum + parseInt(row[field] || 0), 0)
Reduce(rows, field) == SumSeq([i \in 1..Len(rows) |-> ParseNumber(rows[i][field])])

\* const metrics = { ... }
Metrics(w, n) ==
  [totalWorkouts |-> Reduce(w, "workout_count"),
   avgDuration |-> IF Len(w) # 0 THEN Divide(Reduce(w, "total_duration"), Len(w))
                   ELSE Zero,
   totalCalories |-> Reduce(n, "total_calories"),
   avgCalories |-> IF Len(n) # 0 THEN Divide(Reduce(n, "total_calories"), Len(n))
                   ELSE Zero]

\* ---- GET /progress: from the two result sets to the body of res.json
Response(w, n) ==
  IF Len(w) = 0 /\ Len(n) = 0 THEN EmptyProgress
  ELSE
    LET dates == Dates(w, n)
        axis == [i \in 1..Len(dates) |-> ToISODate(dates[i])]
    IN [kind |-> "progress",
        workouts |-> [dates |-> axis,
                      durations |-> Series(dates, w, "total_duration"),
                      counts |-> Series(dates, w, "workout_count")],
        nutrition |-> [dates |-> axis,
                       calories |-> Series(dates, n, "total_calories"),
                       protein |-> Series(dates, n, "total_protein"),
                       carbs |-> Series(dates, n, "total_carbs"),
                       fats |-> Series(dates, n, "total_fats")],
        metrics |-> Metrics(w, n)]


\* a count over the 184 days before the call only
CountQueryRecent(userId) ==
  Rows(<<[count |-> SqlText(Cardinality({w \in workout_logs :
                              w.user_id = userId /\ InTimeFilter(w.date, 184)}))]>>)

\* ---- calculateUserStats: SELECT COUNT(*) FROM workout_logs WHERE user_id = $1
CountQuery(userId) ==
  Rows(<<[count |-> SqlText(Cardinality({w \in workout_logs : w.user_id = userId}))]>>)

\* the distinct workout days of a user
WorkoutDays(userId) == {w.date : w \in {x \in workout_logs : x.user_id = userId}}

\* WITH consecutive_days AS (SELECT date, date - ROW_NUMBER() OVER (ORDER BY date) AS grp
\*   FROM (SELECT DISTINCT date::date FROM workout_logs WHERE user_id = $1) d)
ConsecutiveDays(userId) ==
  LET d == SortAsc(WorkoutDays(userId))
  IN {[date |-> d[i], grp |-> d[i] - i] : i \in 1..Len(d)}

\* SELECT grp, COUNT(*) AS days FROM consecutive_days GROUP BY grp
\* ORDER BY COUNT(*) DESC LIMIT 1
LongestGroup(userId) ==
  LET cd == ConsecutiveDays(userId)
      groups == {[grp |-> g, days |-> Cardinality({c \in cd : c.grp = g})] :
                   g \in {c.grp : c \in cd}}
  IN IF groups = {} THEN <<>>
     ELSE <<CHOOSE g \in groups : \A h \in groups : h.days <= g.days>>

\* ---- calculateUserStats: SELECT COUNT(*) + 1 AS streak FROM (...) s
StreakQuery(userId) ==
  Rows(<<[streak |-> SqlText(Len(LongestGroup(userId)) + 1)]>>)

\* ---- calculateUserStats: SELECT AVG(daily_calories) FROM (SELECT date::date,
\*      SUM(calories) AS daily_calories FROM food_logs WHERE user_id = $1
\*      GROUP BY date::date) daily
CaloriesQuery(userId) ==
  IF "date" \notin FoodLogsColumns THEN QueryError
  ELSE
    LET sel == {f \in food_logs : f.user_id = userId}
        days == {f["date"] : f \in sel}
    IN Rows(<<[avg_calories |->
                 IF days = {} THEN [isNull |-> TRUE, text |-> Zero]
                 ELSE [isNull |-> FALSE,
                       text |-> Divide(SumSet({<<f.id, f.calories>> : f \in sel}),
                                       Cardinality(days))]]>>)

RECURSIVE DayOfCivil(_, _, _)
\* the day ordinal of y-m-d, for dates from 2024-01-01 on
DayOfCivil(y, m, d) ==
  IF y = 2024 /\ m = 1 THEN d - 1
  ELSE IF m = 1 THEN MonthLength(y - 1, 12) + DayOfCivil(y - 1, 12, d)
  ELSE MonthLength(y, m - 1) + DayOfCivil(y, m - 1, d)

\* NOW() - INTERVAL '6 months', in ticks: six calendar months back, the day of
\* month cut to the length of that month, the time of day kept
SixMonthsBefore(t) ==
  LET c == Civil(DayOf(t))
      y == IF c.month > 6 THEN c.year ELSE c.year - 1
      m == IF c.month > 6 THEN c.month - 6 ELSE c.month + 6
      d == IF c.day > MonthLength(y, m) THEN MonthLength(y, m) ELSE c.day
  IN Midnight(DayOfCivil(y, m, d)) + (t - Midnight(DayOf(t)))

SixMonthsAgo == SixMonthsBefore(now)

RECURSIVE SortDesc(_)
SortDesc(S) ==
  IF S = {} THEN <<>>
  ELSE LET m == Max(S) IN <<m>> \o SortDesc(S \ {m})

\* ---- calculateUserStats: SELECT EXTRACT(MONTH FROM date) AS month, COUNT(DISTINCT date),
\*      COUNT(*), SUM(duration) FROM workout_logs WHERE user_id = $1
\*      AND date >= NOW() - INTERVAL '6 months' GROUP BY 1 ORDER BY month DESC
MonthlyStatsQuery(userId) ==
  LET sel == {w \in workout_logs :
                w.user_id = userId /\ Midnight(w.date) >= SixMonthsAgo}
      months == SortDesc({Civil(w.date).month : w \in sel})
  IN Rows([i \in 1..Len(months) |->
       LET grp == {w \in sel : Civil(w.date).month = months[i]}
       IN [month |-> SqlText(months[i]),
           active_days |-> SqlText(Cardinality({w.date : w \in grp})),
           total_workouts |-> SqlText(Cardinality(grp)),
           total_duration |-> SqlText(SumSet({<<w.id, w.duration>> : w \in grp}))]])

RECURSIVE ByCountAsc(_)
\* the groups ordered by times_performed ASC
ByCountAsc(groups) ==
  IF groups = {} THEN <<>>
  ELSE LET g == CHOOSE x \in groups :
                  \A y \in groups : x.times_performed.text <= y.times_performed.text
       IN <<g>> \o ByCountAsc(groups \ {g})

RECURSIVE ByCountDesc(_)
\* the groups ordered by times_performed DESC
ByCountDesc(groups) ==
  IF groups = {} THEN <<>>
  ELSE LET g == CHOOSE x \in groups :
                  \A y \in groups : y.times_performed.text <= x.times_performed.text
       IN <<g>> \o ByCountDesc(groups \ {g})

\* ---- calculateUserStats: SELECT exercise_name, COUNT(*), AVG(COALESCE(weight, 0))
\*      FROM workout_exercises we JOIN workout_logs wl ON we.workout_id = wl.id
\*      WHERE wl.user_id = $1 GROUP BY exercise_name ORDER BY times_performed DESC LIMIT 5
TopExercisesQuery(userId) ==
  LET joined == {e \in workout_exercises :
                   \E w \in workout_logs : w.id = e.workout_id /\ w.user_id = userId}
      groups == {LET grp == {e \in joined : e.exercise_name = name}
                 IN [exercise_name |-> name,
                     times_performed |-> SqlText(Cardinality(grp)),
                     avg_weight |-> SqlText(Divide(SumSet({<<e.id, e.weight>> : e \in grp}),
                                                   Cardinality(grp)))] :
                   name \in {e.exercise_name : e \in joined}}
      ordered == ByCountDesc(groups)
  IN Rows(SubSeq(ordered, 1, IF Len(ordered) < 5 THEN Len(ordered) ELSE 5))

\* ---- calculateUserStats: the i-th of its five queries
StatsQueryResult(i, userId) ==
  CASE i = 1 -> CountQuery(userId)
    [] i = 2 -> StreakQuery(userId)
    [] i = 3 -> CaloriesQuery(userId)
    [] i = 4 -> MonthlyStatsQuery(userId)
    [] OTHER -> TopExercisesQuery(userId)

NoStats ==
  [totalWorkouts |-> 0, streak |-> 0, avgCalories |-> Zero,
   monthlyStats |-> <<>>, topExercises |-> <<>>]

\* ---- calculateUserStats: what the i-th result adds to the values held
StatsAfter(s, i, rows) ==
  CASE i = 1 -> [s EXCEPT !.totalWorkouts = ParseNumber(rows[1].count)]
    [] i = 2 -> [s EXCEPT !.streak = ParseNumber(rows[1].streak)]
    [] i = 3 -> [s EXCEPT !.avgCalories =
                   IF rows[1].avg_calories.isNull THEN Zero
                   ELSE ParseNumber(rows[1].avg_calories)]
    [] i = 4 -> [s EXCEPT !.monthlyStats = rows]
    [] OTHER -> [s EXCEPT !.topExercises = rows]


\* ------------------------------------------------------------- responses
NoResponse == [status |-> 0, body |-> [kind |-> "none"]]

\* the error middleware of server.mjs
InternalServerError ==
  [status |-> 500, body |-> [kind |-> "error", message |-> "Internal server error"]]

\* a catch that answers with what calculateUserStats had computed so far
StatsCatchPartial(s) ==
  [status |-> 200,
   body |-> [kind |-> "stats", totalWorkouts |-> s.totalWorkouts, streak |-> s.streak,
             avgCalories |-> s.avgCalories, monthlyStats |-> s.monthlyStats,
             topExercises |-> s.topExercises, lastUpdated |-> now]]

\* ---- GET /stats: the catch of the route
StatsCatch(s) ==
  [status |-> 500, body |-> [kind |-> "error", message |-> "Error fetching user stats"]]

\* ---- GET /stats: res.json(stats)
StatsOk(s) ==
  [status |-> 200,
   body |-> [kind |-> "stats", totalWorkouts |-> s.totalWorkouts, streak |-> s.streak,
             avgCalories |-> s.avgCalories, monthlyStats |-> s.monthlyStats,
             topExercises |-> s.topExercises, lastUpdated |-> now]]

\* ---- GET /progress: the catch: empty data instead of a 500
ProgressCatch == [status |-> 200, body |-> EmptyProgress]

\* ---- GET /progress: what a rejected pool.connect() leaves the caller with:
\*      the await stands before the try, so the handler's promise rejects; the
\*      router either drops the rejection (no answer) or hands it to the
\*      error middleware
ConnectRejected == {NoResponse, InternalServerError}

\* -------------------------------------------------------------------- Init
WorkoutChoices == Users \X Days \X Durations
FoodChoices == Users \X FoodTicks \X Foods

\* tables are drawn up to the order of insertion: ids follow the order of
\* (user, day), which no query of the two handlers looks at
Ordered(f, n, k) == \A i \in 1..(n - 1) : f[i][1] * 1000 + f[i][k] <= f[i + 1][1] * 1000 + f[i + 1][k]

NoRequest == [handler |-> "none", userId |-> 0, range |-> "undefined"]

\* a request slot nothing has arrived in
Idle ==
  [pc |-> "idle", req |-> NoRequest, qi |-> 0, timeFilter |-> 0, workouts |-> <<>>,
   nutrition |-> <<>>, stats |-> NoStats, fault |-> "none", res |-> NoResponse]

InitRequest ==
  /\ clients = <<>>
  /\ calls = <<>>
  /\ parked = Idle
  /\ first = NoResponse
  /\ checkedOut = 0
  /\ pc = "idle"
  /\ req = NoRequest
  /\ qi = 0
  /\ timeFilter = 0
  /\ workouts = <<>>
  /\ nutrition = <<>>
  /\ stats = NoStats
  /\ fault = "none"
  /\ res = NoResponse

\* the rows signup leaves for each user: one in users, one in user_preferences
\* with the column defaults; no goals and no templates
InitTables ==
  /\ users = {[id |-> u] : u \in Users}
  /\ user_preferences = {[user_id |-> u, theme |-> "light", units |-> "metric",
                          notifications |-> FALSE] : u \in Users}
  /\ daily_goals = {}
  /\ meal_templates = {}

Init ==
  /\ \E n \in 0..MaxWorkouts : \E f \in [1..n -> WorkoutChoices] :
       \E e \in [1..n -> ExerciseNames] :
       /\ Ordered(f, n, 2)
       /\ workout_logs = {[id |-> i, user_id |-> f[i][1], date |-> f[i][2],
                           duration |-> f[i][3]] : i \in 1..n}
       /\ workout_exercises = {[id |-> i, workout_id |-> i, exercise_name |-> e[i],
                                weight |-> 0] : i \in 1..n}
  /\ \E n \in 0..MaxFoods : \E f \in [1..n -> FoodChoices] :
       /\ Ordered(f, n, 2)
       /\ food_logs = {[id |-> i, user_id |-> f[i][1], logged_at |-> f[i][2],
                        calories |-> f[i][3].calories, protein |-> f[i][3].protein,
                        carbs |-> f[i][3].carbs, fats |-> f[i][3].fats] : i \in 1..n}
  /\ InitTables
  /\ calories_rows = <<>>
  /\ now \in NowTicks
  /\ InitRequest

\* ----------------------------------------------------------------- actions
\* a request arrives once the one before it has been dealt with
Arrive(handler, userId, range) ==
  /\ pc \in {"idle", "done"}
  /\ req' = [handler |-> handler, userId |-> userId, range |-> range]
  /\ pc' = "connect"
  /\ qi' = 0
  /\ timeFilter' = 0
  /\ workouts' = <<>>
  /\ nutrition' = <<>>
  /\ stats' = NoStats
  /\ fault' = "none"
  /\ res' = NoResponse
  /\ UNCHANGED <<store, checkedOut, parked, calories_rows, clients, calls>>

\* GET /api/progress?range=...
GetProgress ==
  /\ \E u \in Users, r \in Ranges : Arrive("progress", u, r)
  /\ UNCHANGED first

\* GET /api/user/stats
GetStats ==
  /\ \E u \in Users : Arrive("stats", u, "undefined")
  /\ UNCHANGED first

\* progress.mjs: const client = await pool.connect(), then the switch
ProgressConnect ==
  /\ pc = "connect" /\ req.handler = "progress"
  /\ \E ok \in BOOLEAN :
       IF ok
       THEN /\ checkedOut' = checkedOut + 1
            /\ timeFilter' = TimeFilter(req.range)
            /\ pc' = "tables"
            /\ UNCHANGED <<fault, res>>
       ELSE /\ fault' = "connect"
            /\ res' \in ConnectRejected
            /\ pc' = "done"
            /\ UNCHANGED <<checkedOut, timeFilter>>
  /\ UNCHANGED <<store, req, qi, workouts, nutrition, stats>>
  /\ UNCHANGED <<parked, first, calories_rows, clients, calls>>

\* a catch that answers and leaves the client checked out
ProgressFailNoRelease ==
  /\ fault' = "query"
  /\ res' = ProgressCatch
  /\ UNCHANGED checkedOut
  /\ pc' = "done"

\* progress.mjs: the catch and the finally
ProgressFail ==
  /\ fault' = "query"
  /\ res' = ProgressCatch
  /\ checkedOut' = checkedOut - 1
  /\ pc' = "done"

\* progress.mjs: const tablesExist = await client.query(...)
ProgressTables ==
  /\ pc = "tables"
  /\ \E ok \in BOOLEAN :
       IF ok
       THEN IF ~TablesExist.workout_exists \/ ~TablesExist.food_exists
            THEN /\ res' = [status |-> 200, body |-> EmptyProgress]
                 /\ checkedOut' = checkedOut - 1
                 /\ pc' = "done"
                 /\ UNCHANGED fault
            ELSE /\ pc' = "workouts"
                 /\ UNCHANGED <<res, checkedOut, fault>>
       ELSE ProgressFail
  /\ Select
  /\ UNCHANGED <<now, req, qi, timeFilter, workouts, nutrition, stats>>
  /\ UNCHANGED <<parked, first, calories_rows, clients, calls>>

\* progress.mjs: const workouts = await client.query(...)
ProgressWorkouts ==
  /\ pc = "workouts"
  /\ \E ok \in BOOLEAN :
       LET q == IF ok THEN WorkoutsQuery(req.userId, timeFilter) ELSE QueryError
       IN IF q.ok
          THEN /\ workouts' = q.rows
               /\ pc' = "nutrition"
               /\ UNCHANGED <<res, checkedOut, fault>>
          ELSE /\ ProgressFail
               /\ UNCHANGED workouts
  /\ Select
  /\ UNCHANGED <<now, req, qi, timeFilter, nutrition, stats>>
  /\ UNCHANGED <<parked, first, calories_rows, clients, calls>>

\* progress.mjs: const nutrition = await client.query(...), and from there to
\* res.json without another await
ProgressNutrition ==
  /\ pc = "nutrition"
  /\ \E ok \in BOOLEAN :
       LET q == IF ok THEN NutritionQuery(req.userId, timeFilter) ELSE QueryError
       IN IF q.ok
          THEN /\ nutrition' = q.rows
               /\ res' = [status |-> 200, body |-> Response(workouts, q.rows)]
               /\ checkedOut' = checkedOut - 1
               /\ pc' = "done"
               /\ UNCHANGED fault
          ELSE /\ res' = ProgressCatch
               /\ checkedOut' = checkedOut - 1
               /\ pc' = "done"
               /\ fault' = IF ok THEN fault ELSE "query"
               /\ UNCHANGED nutrition
  /\ Select
  /\ UNCHANGED <<now, req, qi, timeFilter, workouts, stats>>
  /\ UNCHANGED <<parked, first, calories_rows, clients, calls>>

\* user.mjs: calculateUserStats: const client = await pool.connect()
StatsConnect ==
  /\ pc = "connect" /\ req.handler = "stats"
  /\ \E ok \in BOOLEAN :
       IF ok
       THEN /\ checkedOut' = checkedOut + 1
            /\ qi' = 1
            /\ pc' = "query"
            /\ UNCHANGED <<fault, res>>
       ELSE /\ fault' = "connect"
            /\ res' = StatsCatch(stats)
            /\ pc' = "done"
            /\ UNCHANGED <<checkedOut, qi>>
  /\ UNCHANGED <<store, req, timeFilter, workouts, nutrition, stats>>
  /\ UNCHANGED <<parked, first, calories_rows, clients, calls>>

\* user.mjs: calculateUserStats: one await client.query(...) and what follows
\* it up to the next await, the return or the throw
StatsQuery ==
  /\ pc = "query"
  /\ \E ok \in BOOLEAN :
       LET q == IF ok THEN StatsQueryResult(qi, req.userId) ELSE QueryError
       IN IF q.ok
          THEN /\ stats' = StatsAfter(stats, qi, q.rows)
               /\ UNCHANGED fault
               /\ IF qi = 5
                  THEN /\ res' = StatsOk(stats')
                       /\ checkedOut' = checkedOut - 1
                       /\ pc' = "done"
                       /\ UNCHANGED qi
                  ELSE /\ qi' = qi + 1
                       /\ UNCHANGED <<res, checkedOut, pc>>
          ELSE /\ res' = StatsCatch(stats)
               /\ checkedOut' = checkedOut - 1
               /\ pc' = "done"
               /\ fault' = IF ok THEN fault ELSE "query"
               /\ UNCHANGED <<stats, qi>>
  /\ Select
  /\ UNCHANGED <<now, req, timeFilter, workouts, nutrition>>
  /\ UNCHANGED <<parked, first, calories_rows, clients, calls>>

Next ==
  \/ GetProgress
  \/ GetStats
  \/ ProgressConnect
  \/ ProgressTables
  \/ ProgressWorkouts
  \/ ProgressNutrition
  \/ StatsConnect
  \/ StatsQuery

Spec == Init /\ [][Next]_vars


\* ------------------------------------------- the series builder on its own
\* per-day aggregates a result row can carry
WorkoutAggregates ==
  {[workout_count |-> 1, total_duration |-> 30],
   [workout_count |-> 2, total_duration |-> 75]}

NutritionAggregates ==
  {[total_calories |-> 500, total_protein |-> 30, total_carbs |-> 60, total_fats |-> 20],
   [total_calories |-> 1200, total_protein |-> 80, total_carbs |-> 150, total_fats |-> 40]}

\* the result sets a GROUP BY date::date ORDER BY date::date can hand to the
\* handler: one row per day, days ascending
StrictlyAscending(d, n) == \A i \in 1..(n - 1) : d[i] < d[i + 1]

InitSeries ==
  /\ workout_logs = {}
  /\ workout_exercises = {}
  /\ food_logs = {}
  /\ InitTables
  /\ calories_rows = <<>>
  /\ clients = <<>>
  /\ calls = <<>>
  /\ parked = Idle
  /\ first = NoResponse
  /\ now = 0
  /\ checkedOut = 1
  /\ pc = "nutrition"
  /\ req = [handler |-> "progress", userId |-> 1, range |-> "month"]
  /\ qi = 0
  /\ timeFilter = TimeFilter("month")
  /\ \E n \in 0..MaxSeriesRows : \E d \in [1..n -> SeriesDays] :
       \E a \in [1..n -> WorkoutAggregates] :
       /\ StrictlyAscending(d, n)
       /\ workouts = [i \in 1..n |->
            [date |-> NewDate("workouts", i, d[i]),
             workout_count |-> SqlText(a[i].workout_count),
             total_duration |-> SqlText(a[i].total_duration)]]
  /\ \E n \in 0..MaxSeriesRows : \E d \in [1..n -> SeriesDays] :
       \E a \in [1..n -> NutritionAggregates] :
       /\ StrictlyAscending(d, n)
       /\ nutrition = [i \in 1..n |->
            [date |-> NewDate("nutrition", i, d[i]),
             total_calories |-> SqlText(a[i].total_calories),
             total_protein |-> SqlText(a[i].total_protein),
             total_carbs |-> SqlText(a[i].total_carbs),
             total_fats |-> SqlText(a[i].total_fats)]]
  /\ stats = NoStats
  /\ fault = "none"
  /\ res = NoResponse

\* progress.mjs, from "If no data found" to res.json(response) and the finally
SeriesRespond ==
  /\ pc = "nutrition"
  /\ res' = [status |-> 200, body |-> Response(workouts, nutrition)]
  /\ checkedOut' = checkedOut - 1
  /\ pc' = "done"
  /\ UNCHANGED <<store, req, qi, timeFilter, workouts, nutrition, stats, fault>>
  /\ UNCHANGED <<parked, first, calories_rows, clients, calls>>

NextSeries == SeriesRespond

SpecSeries == InitSeries /\ [][NextSeries]_vars


\* ================================================================== claims
Done(handler) == pc = "done" /\ req.handler = handler

\* the caller of GET /progress holds a progress body
Answered == Done("progress") /\ res.body.kind = "progress"

\* the size of the largest block of calendar-consecutive days of D
LongestRun(D) ==
  Max({0} \cup {b - a + 1 : <<a, b>> \in
                  {p \in D \X D : p[1] <= p[2] /\ \A k \in p[1]..p[2] : k \in D}})

\* calculateUserStats has computed the streak of this request
StreakComputed == req.handler = "stats" /\ pc = "query" /\ qi > 2

\* C1: the streak GetStats computes for a user equals the size of the largest
\* block of calendar-consecutive days among the user's distinct workout days.
C1_StreakIsLongestRun ==
  StreakComputed => stats.streak = LongestRun(WorkoutDays(req.userId))

\* C2: the streak GetStats computes lies between 0 and the number of distinct
\* workout days of the user, and is 0 when the user has no workout day.
C2_StreakWithinDays ==
  StreakComputed =>
    /\ 0 <= stats.streak
    /\ stats.streak <= Cardinality(WorkoutDays(req.userId))
    /\ (WorkoutDays(req.userId) = {} => stats.streak = 0)

NoDuplicates(s) == \A i, j \in 1..Len(s) : s[i] = s[j] => i = j

IsoBefore(a, b) ==
  \/ a[1] < b[1]
  \/ a[1] = b[1] /\ a[2] < b[2]
  \/ a[1] = b[1] /\ a[2] = b[2] /\ a[3] < b[3]

WorkoutDaysInRange(userId, n) ==
  {w.date : w \in {x \in workout_logs : x.user_id = userId /\ InTimeFilter(x.date, n)}}

FoodDaysInRange(userId, n) ==
  {DayOf(f.logged_at) :
     f \in {x \in food_logs : x.user_id = userId /\ x.logged_at >= now - Midnight(n)}}

IsoOfDay(d) == LET c == Civil(d) IN <<c.year, c.month, c.day>>

\* C5: when no store operation fails, the set of days on the axis of a
\* GetProgress response is the union of the user's workout days and food-log
\* days inside the queried range.
C5_AxisIsUnionOfDays ==
  (Done("progress") /\ fault = "none") =>
    Range(res.body.workouts.dates) =
      {IsoOfDay(d) : d \in WorkoutDaysInRange(req.userId, timeFilter)
                            \cup FoodDaysInRange(req.userId, timeFilter)}

\* the aggregate a result set holds for a day, 0 when it has no row for it
AggregateOn(rows, iso, field) ==
  IF \E k \in 1..Len(rows) : IsoOfDay(rows[k].date.day) = iso
  THEN rows[CHOOSE k \in 1..Len(rows) : IsoOfDay(rows[k].date.day) = iso][field].text
  ELSE 0

C7_ProgressNeverFails ==
  (Done("progress") /\ fault # "none") =>
    res = [status |-> 200, body |-> EmptyProgress]

\* C8: when the connection or a query of GetStats fails, the caller receives
\* a 500 error and no snapshot.
C8_StatsFailsLoud ==
  (Done("stats") /\ fault # "none") =>
    /\ res.status = 500
    /\ res.body.kind = "error"

\* a GetStats request whose first two queries succeeded and whose third failed
C8_Witness ==
  /\ Done("stats")
  /\ fault = "query"
  /\ qi = 3
  /\ stats.totalWorkouts > 0
  /\ res.status = 500

RecognizedRanges == {"week", "month", "year"}

\* what GetProgress answers for range = "month" when no store operation
\* fails before the response
MonthResponse(userId) ==
  LET w == WorkoutsQuery(userId, 30)
      n == NutritionQuery(userId, 30)
  IN IF w.ok /\ n.ok THEN [status |-> 200, body |-> Response(w.rows, n.rows)]
     ELSE ProgressCatch

\* C9: a GetProgress request whose range is none of week, month, year, or is
\* missing, uses the 30-day window, reads the workout rows the month request
\* reads, and is answered as the month request is, with status 200.
C9_UnrecognizedRangeIsMonth ==
  (req.handler = "progress" /\ req.range \notin RecognizedRanges) =>
    /\ pc \in {"tables", "workouts", "nutrition"} => timeFilter = 30
    /\ pc = "nutrition" => workouts = WorkoutsQuery(req.userId, 30).rows
    /\ (pc = "done" /\ fault = "none") => res = MonthResponse(req.userId)
    /\ (pc = "done" /\ fault # "connect") => res.status = 200

\* a request with range "decade", answered, that read a workout row of a day
\* inside the 30-day window and outside the 7-day window
C9_Witness ==
  /\ Done("progress")
  /\ req.range = "decade"
  /\ fault = "none"
  /\ res.status = 200
  /\ \E i \in 1..Len(workouts) :
       /\ InTimeFilter(workouts[i].date.day, 30)
       /\ ~InTimeFilter(workouts[i].date.day, 7)

\* C10: with no store operation failing, GetProgress answers a user who has a
\* food log in range with one nutrition entry per distinct calendar day of
\* logged_at, and GetStats answers 200 with avgCalories taken from the same
\* per-day buckets.
C10_NutritionBucketedByLoggedAt ==
  /\ (Done("progress") /\ fault = "none"
        /\ FoodDaysInRange(req.userId, timeFilter) # {}) =>
       \A d \in FoodDaysInRange(req.userId, timeFilter) :
         \E i \in 1..Len(res.body.nutrition.dates) :
           res.body.nutrition.dates[i] = IsoOfDay(d)
  /\ (Done("stats") /\ fault = "none") =>
       /\ res.status = 200
       /\ res.body.kind = "stats"
       /\ res.body.avgCalories =
            (LET sel == {f \in food_logs : f.user_id = req.userId}
                 days == {DayOf(f.logged_at) : f \in sel}
             IN IF days = {} THEN Zero
                ELSE Divide(SumSet({<<f.id, f.calories>> : f \in sel}),
                            Cardinality(days)))

\* the calories a user has logged, and the calendar days they were logged on
LoggedCalories(userId) ==
  SumSet({<<f.id, f.calories>> : f \in {x \in food_logs : x.user_id = userId}})

LoggedDays(userId) ==
  {DayOf(f.logged_at) : f \in {x \in food_logs : x.user_id = userId}}

\* C12: with no store operation failing, GetStats answers with avgCalories equal
\* to the user's logged calories divided by the number of distinct days that
\* have a food log, and 0 when the user has no food log.
C12_AvgCaloriesIsMeanOfDailySums ==
  (Done("stats") /\ fault = "none") =>
    /\ res.body.kind = "stats"
    /\ res.body.avgCalories =
         IF LoggedDays(req.userId) = {} THEN Zero
         ELSE Divide(LoggedCalories(req.userId), Cardinality(LoggedDays(req.userId)))

\* the food logs of a user inside the range, by the instant they were logged
FoodInRange(userId, n) ==
  {f \in food_logs : f.user_id = userId /\ f.logged_at >= now - Midnight(n)}

\* C13: with no store operation failing, metrics.avgCalories of a GetProgress
\* response is the calorie total of the food logs in range divided by the
\* number of days in range that have a food log.
C13_ProgressAvgOverLoggedDays ==
  (Done("progress") /\ fault = "none" /\ FoodInRange(req.userId, timeFilter) # {}) =>
    res.body.metrics.avgCalories =
      Divide(SumSet({<<f.id, f.calories>> : f \in FoodInRange(req.userId, timeFilter)}),
             Cardinality(FoodDaysInRange(req.userId, timeFilter)))

\* C14: with no store operation failing, GetStats answers with totalWorkouts
\* equal to the number of all workout rows of the user, and GetProgress with
\* metrics.totalWorkouts equal to the number of the user's workout rows in range.
C14_TotalWorkoutsAllVersusRange ==
  /\ (Done("stats") /\ fault = "none") =>
       /\ res.body.kind = "stats"
       /\ res.body.totalWorkouts =
            Cardinality({w \in workout_logs : w.user_id = req.userId})
  /\ (Done("progress") /\ fault = "none") =>
       res.body.metrics.totalWorkouts =
         Cardinality({w \in workout_logs :
                        w.user_id = req.userId /\ InTimeFilter(w.date, timeFilter)})

\* the workout rows GET /progress reads for a user and a range keyword
WorkoutRowsFor(userId, range) == WorkoutsQuery(userId, TimeFilter(range)).rows

RowDays(rows) == {rows[i].date.day : i \in 1..Len(rows)}

\* C20: a GetProgress request reads only workout days no earlier than now minus
\* 7, 30 or 365 days for week, month, year; on the same store and instant the
\* days and the workout total read for week are among those read for month,
\* and those for month among those for year; and the axis, totalWorkouts and
\* totalCalories answered never exceed the ones of the next wider range.
C20_RangesAreNested ==
  LET u == req.userId
      week == WorkoutRowsFor(u, "week")
      month == WorkoutRowsFor(u, "month")
      year == WorkoutRowsFor(u, "year")
  IN (req.handler = "progress" /\ req.range \in RecognizedRanges) =>
       /\ pc \in {"nutrition", "done"} /\ fault # "connect" =>
            timeFilter = (CASE req.range = "week" -> 7
                            [] req.range = "month" -> 30
                            [] OTHER -> 365)
       /\ pc = "nutrition" =>
            /\ workouts = WorkoutRowsFor(u, req.range)
            /\ \A d \in RowDays(workouts) : Midnight(d) >= now - Midnight(timeFilter)
            /\ RowDays(week) \subseteq RowDays(month)
            /\ RowDays(month) \subseteq RowDays(year)
            /\ Reduce(week, "workout_count") <= Reduce(month, "workout_count")
            /\ Reduce(month, "workout_count") <= Reduce(year, "workout_count")
       /\ (pc = "done" /\ fault = "none") =>
            /\ Range(res.body.workouts.dates) \subseteq
                 {IsoOfDay(d) : d \in RowDays(year)}
            /\ res.body.metrics.totalWorkouts <= Reduce(year, "workout_count")
            /\ res.body.metrics.totalCalories <= LoggedCalories(u)

\* a week request that has read its rows, on a store where the month request
\* reads a day the week request does not, and the year request one more
C20_Witness ==
  /\ req.handler = "progress" /\ req.range = "week" /\ pc = "nutrition"
  /\ workouts # <<>>
  /\ RowDays(workouts) # RowDays(WorkoutRowsFor(req.userId, "month"))
  /\ RowDays(WorkoutRowsFor(req.userId, "month")) # RowDays(WorkoutRowsFor(req.userId, "year"))

\* C18: no step of a GetStats or GetProgress request, answered or failed,
\* changes the rows of workout_logs, workout_exercises, food_logs, users,
\* user_preferences, daily_goals or meal_templates.
C18_HandlersAreReadOnly == [][UNCHANGED tables]_vars

\* a request that has sent statements to a populated store, one of which failed
C18_Witness ==
  /\ pc = "done" /\ fault = "query"
  /\ workout_logs # {} /\ food_logs # {} /\ users # {}

\* ------------------------------- calculateUserStats on a store that answers
\* The statements of calculateUserStats after the daily calories one are
\* reached only when that one is answered, as a food_logs table with a date
\* column answers it (CREATE TABLE IF NOT EXISTS keeps a table it finds).
MaxStatsWorkouts == 3

\* 2024-08-14, 2024-08-15, 2024-12-20, 2025-02-10, 2025-02-11, 2025-12-25
StatsDays == {226, 227, 354, 406, 407, 724}

\* 2025-02-15 at 00:00 and at 12:00
StatsTicks == {822, 823}

\* AVG(daily_calories): NULL over no rows, else a numeric
CaloriesRows ==
  {<<[avg_calories |-> [isNull |-> TRUE, text |-> Zero]]>>,
   <<[avg_calories |-> [isNull |-> FALSE, text |-> Divide(500, 1)]]>>}

InitStats ==
  /\ \E n \in 0..MaxStatsWorkouts : \E f \in [1..n -> Users \X StatsDays \X Durations] :
       /\ Ordered(f, n, 2)
       /\ workout_logs = {[id |-> i, user_id |-> f[i][1], date |-> f[i][2],
                           duration |-> f[i][3]] : i \in 1..n}
       /\ workout_exercises = {[id |-> i, workout_id |-> i, exercise_name |-> "Squat",
                                weight |-> 0] : i \in 1..n}
  /\ food_logs = {}
  /\ InitTables
  /\ calories_rows \in CaloriesRows
  /\ now = 822
  /\ InitRequest

\* user.mjs: calculateUserStats: const caloriesResult = await client.query(...)
\* answered, and avgCalories taken from it
StatsCalories ==
  /\ pc = "query" /\ qi = 3
  /\ stats' = StatsAfter(stats, qi, calories_rows)
  /\ qi' = qi + 1
  /\ Select
  /\ UNCHANGED <<now, checkedOut, pc, req, timeFilter, workouts, nutrition, fault, res>>
  /\ UNCHANGED <<parked, first, calories_rows, clients, calls>>

\* the other four statements of calculateUserStats
StatsQueryOther == qi # 3 /\ StatsQuery

\* the first GET /api/user/stats
GetStatsFirst == pc = "idle" /\ GetStats

\* the same caller asks once more; what they received before is kept aside
GetStatsAgain ==
  /\ pc = "done" /\ first = NoResponse
  /\ Arrive("stats", req.userId, "undefined")
  /\ first' = res

\* time passes between the two calls: NOW() and new Date() move on
Tick ==
  /\ pc = "done" /\ first = NoResponse
  /\ now' \in {t \in StatsTicks : t > now}
  /\ UNCHANGED <<tables, checkedOut, pc, req, qi, timeFilter, workouts, nutrition,
                 stats, fault, res, parked, first, calories_rows, clients, calls>>

NextStats ==
  \/ GetStatsFirst
  \/ GetStatsAgain
  \/ Tick
  \/ StatsConnect
  \/ StatsQueryOther
  \/ StatsCalories

SpecStats == InitStats /\ [][NextStats]_vars

\* the caller of GET /api/user/stats holds the statistics
StatsAnswered == Done("stats") /\ res.status = 200

\* the workouts of a user that a call at instant t takes into its rollups
InWindow(userId, t) ==
  {w \in workout_logs : w.user_id = userId /\ Midnight(w.date) >= SixMonthsBefore(t)}

YearMonth(day) == [year |-> Civil(day).year, month |-> Civil(day).month]

BothAnswered == StatsAnswered /\ first.status = 200

MaxPerformed == 2

TopNames == <<"Bench", "Curl", "Deadlift", "Lunge", "Press", "Squat">>

\* one workout of each user on 2025-02-10; the first user's holds each of six
\* exercises up to MaxPerformed times, the second user's three sets of rows
InitTop ==
  /\ workout_logs = {[id |-> u, user_id |-> u, date |-> 406, duration |-> 45] : u \in Users}
  /\ \E c \in [1..Len(TopNames) -> 0..MaxPerformed] :
       workout_exercises =
         {[id |-> 10 * q[1] + q[2], workout_id |-> 1, exercise_name |-> TopNames[q[1]],
           weight |-> 0] :
            q \in {r \in (1..Len(TopNames)) \X (1..MaxPerformed) : r[2] <= c[r[1]]}}
         \cup {[id |-> 100 + k, workout_id |-> 2, exercise_name |-> "Row", weight |-> 0] :
                 k \in 1..3}
  /\ food_logs = {}
  /\ InitTables
  /\ calories_rows \in CaloriesRows
  /\ now = 822
  /\ InitRequest

SpecTop == InitTop /\ [][NextStats]_vars

\* the exercise rows of a user's own workouts, and how often a name occurs
OwnExercises(userId) ==
  {e \in workout_exercises :
     \E w \in workout_logs : w.id = e.workout_id /\ w.user_id = userId}

TimesPerformed(userId, name) ==
  Cardinality({e \in OwnExercises(userId) : e.exercise_name = name})

MaxConcurrentWorkouts == 2

\* 2024-12-01 and 2024-12-30
ConcurrentDays == {335, 364}

InitConcurrent ==
  /\ \E n \in 0..MaxConcurrentWorkouts :
       \E f \in [1..n -> Users \X ConcurrentDays \X Durations] :
       /\ Ordered(f, n, 2)
       /\ workout_logs = {[id |-> i, user_id |-> f[i][1], date |-> f[i][2],
                           duration |-> f[i][3]] : i \in 1..n}
       /\ workout_exercises = {[id |-> i, workout_id |-> i, exercise_name |-> "Squat",
                                weight |-> 0] : i \in 1..n}
  /\ food_logs = {}
  /\ InitTables
  /\ calories_rows = <<[avg_calories |-> [isNull |-> FALSE, text |-> Divide(500, 1)]]>>
  /\ now = 730
  /\ InitRequest

\* what the handler running holds in its closure: req, client and its consts
Running ==
  [pc |-> pc, req |-> req, qi |-> qi, timeFilter |-> timeFilter, workouts |-> workouts,
   nutrition |-> nutrition, stats |-> stats, fault |-> fault, res |-> res]

\* a switch that leaves the request of the handler running to the one resumed,
\* as a handler keeping req in a variable of the module would
SwitchSharedRequest ==
  /\ parked' = Running
  /\ pc' = parked.pc
  /\ qi' = parked.qi
  /\ timeFilter' = parked.timeFilter
  /\ workouts' = parked.workouts
  /\ nutrition' = parked.nutrition
  /\ stats' = parked.stats
  /\ fault' = parked.fault
  /\ res' = parked.res
  /\ UNCHANGED <<store, checkedOut, req, first, calories_rows, clients, calls>>

\* the handler running stands at an await (or has not started, or is done) and
\* the event loop resumes the other one, with the closure it left
Switch ==
  /\ parked' = Running
  /\ pc' = parked.pc
  /\ req' = parked.req
  /\ qi' = parked.qi
  /\ timeFilter' = parked.timeFilter
  /\ workouts' = parked.workouts
  /\ nutrition' = parked.nutrition
  /\ stats' = parked.stats
  /\ fault' = parked.fault
  /\ res' = parked.res
  /\ UNCHANGED <<store, checkedOut, first, calories_rows, clients, calls>>

NextConcurrent ==
  \/ GetProgress
  \/ GetStats
  \/ ProgressConnect
  \/ ProgressTables
  \/ ProgressWorkouts
  \/ ProgressNutrition
  \/ StatsConnect
  \/ StatsQueryOther
  \/ StatsCalories
  \/ Switch

SpecConcurrent == InitConcurrent /\ [][NextConcurrent]_vars

\* what GET /progress answers a request that runs alone on this store
SoloProgress(r) ==
  LET n == TimeFilter(r.range)
      w == WorkoutsQuery(r.userId, n)
      q == NutritionQuery(r.userId, n)
  IN IF ~TablesExist.workout_exists \/ ~TablesExist.food_exists
     THEN [status |-> 200, body |-> EmptyProgress]
     ELSE IF q.ok THEN [status |-> 200, body |-> Response(w.rows, q.rows)]
     ELSE ProgressCatch

RECURSIVE SoloStats(_, _)
\* what calculateUserStats holds after its first k statements when it runs
\* alone on this store
SoloStats(userId, k) ==
  IF k = 0 THEN NoStats
  ELSE StatsAfter(SoloStats(userId, k - 1), k,
                  IF k = 3 THEN calories_rows ELSE StatsQueryResult(k, userId).rows)

\* a request holds and has received what it would alone
AsAlone(r) ==
  /\ (r.req.handler = "progress" /\ r.pc \in {"tables", "workouts", "nutrition"}) =>
       r.timeFilter = TimeFilter(r.req.range)
  /\ (r.req.handler = "progress" /\ r.pc = "nutrition") =>
       r.workouts = WorkoutsQuery(r.req.userId, TimeFilter(r.req.range)).rows
  /\ (r.req.handler = "progress" /\ r.pc = "done" /\ r.fault = "none") =>
       r.res = SoloProgress(r.req)
  /\ (r.req.handler = "stats" /\ r.pc = "query") =>
       r.stats = SoloStats(r.req.userId, r.qi - 1)
  /\ (r.req.handler = "stats" /\ r.pc = "done" /\ r.fault = "none") =>
       r.res = StatsOk(SoloStats(r.req.userId, 5))

Holding(r) == IF r.pc \in {"tables", "workouts", "nutrition", "query"} THEN 1 ELSE 0

Table(name) ==
  CASE name = "users" -> users
    [] name = "user_preferences" -> user_preferences
    [] name = "daily_goals" -> daily_goals
    [] name = "food_logs" -> food_logs
    [] name = "workout_logs" -> workout_logs
    [] name = "workout_exercises" -> workout_exercises
    [] OTHER -> meal_templates

\* the connections of the pool and the slots calls run in
Connections == {1, 2}

\* a connection: held by a handler or free, inside a transaction block or not,
\* and the rows inserted and deleted in that block, as <<table, row>>
FreeConnection == [held |-> FALSE, tx |-> FALSE, ins |-> {}, del |-> {}]

RowsOf(writes, name) == {w[2] : w \in {x \in writes : x[1] = name}}

\* the rows of a table as the statements of connection c see them
Seen(c, name) ==
  (Table(name) \ RowsOf(clients[c].del, name)) \cup RowsOf(clients[c].ins, name)

\* rows other connections have inserted in a block still open: an insert of
\* the same key waits for them
PendingElsewhere(c, name) ==
  RowsOf(UNION {clients[d].ins : d \in DOMAIN clients \ {c}}, name)

\* nextval of the SERIAL id of a table
NextId(name) ==
  1 + Max({0} \cup {r.id : r \in Table(name)}
              \cup {r.id : r \in RowsOf(UNION {clients[d].ins : d \in DOMAIN clients}, name)})

\* BEGIN (inside a block: a warning, the block goes on)
Begin(conn) == [conn EXCEPT !.tx = TRUE]

\* the connection after ROLLBACK, and after COMMIT once its rows are stored
Ended(conn) == [conn EXCEPT !.tx = FALSE, !.ins = {}, !.del = {}]

\* the connection after a writing statement: in a block the rows are kept aside
Written(conn, ins, del) ==
  IF conn.tx
  THEN [conn EXCEPT !.ins = (@ \ del) \cup ins,
                    !.del = @ \cup {w \in del : w[2] \in Table(w[1])}]
  ELSE conn

\* client.release()
Release(conn) == [conn EXCEPT !.held = FALSE]

Stored(name, ins, del) == (Table(name) \ RowsOf(del, name)) \cup RowsOf(ins, name)

\* the tables take the rows written
Store(ins, del) ==
  /\ users' = Stored("users", ins, del)
  /\ user_preferences' = Stored("user_preferences", ins, del)
  /\ daily_goals' = Stored("daily_goals", ins, del)
  /\ food_logs' = Stored("food_logs", ins, del)
  /\ workout_logs' = Stored("workout_logs", ins, del)
  /\ workout_exercises' = Stored("workout_exercises", ins, del)
  /\ meal_templates' = Stored("meal_templates", ins, del)

\* a writing statement on a connection reaches the tables at once outside a
\* block, and at COMMIT inside one
WriteThrough(conn, ins, del) ==
  IF conn.tx THEN UNCHANGED tables ELSE Store(ins, del)

\* what the GetProgress / GetStats side of the model holds
readers == <<now, checkedOut, pc, req, qi, timeFilter, workouts, nutrition, stats,
             fault, res, parked, first, calories_rows>>

ReadersIdle ==
  /\ parked = Idle
  /\ first = NoResponse
  /\ calories_rows = <<>>
  /\ checkedOut = 0
  /\ pc = "idle"
  /\ req = NoRequest
  /\ qi = 0
  /\ timeFilter = 0
  /\ workouts = <<>>
  /\ nutrition = <<>>
  /\ stats = NoStats
  /\ fault = "none"
  /\ res = NoResponse

\* ---- a call of a writing handler
NoCall ==
  [handler |-> "none", pc |-> "idle", userId |-> 0, body |-> <<>>, client |-> 0,
   held |-> <<>>, failed |-> "none", status |-> 0]

\* the call in slot s goes on as k, its connection c as conn
Goes(s, k) == calls' = [calls EXCEPT ![s] = k]

Leaves(c, conn) == clients' = [clients EXCEPT ![c] = conn]

\* a call arrives in a free slot and awaits pool.connect()
Arrives(s, handler, userId, body) ==
  /\ calls[s].pc = "idle"
  /\ Goes(s, [NoCall EXCEPT !.handler = handler, !.pc = "connect", !.userId = userId,
                            !.body = body])
  /\ UNCHANGED <<clients, tables>>

\* res.status(n).json(...) and the finally: the call is over
Answer(k, n) == [k EXCEPT !.pc = "done", !.status = n, !.client = 0, !.held = <<>>]

\* a catch that keeps what the block wrote
CatchCommit(s) ==
  LET k == calls[s] IN
  /\ k.pc = "rollback"
  /\ Goes(s, Answer(k, 500))
  /\ Leaves(k.client, Release(Ended(clients[k.client])))
  /\ Store(clients[k.client].ins, clients[k.client].del)

\* the catch of the handlers that open a block: await client.query('ROLLBACK'),
\* res.status(500), and the finally
CatchRollback(s) ==
  LET k == calls[s] IN
  /\ k.pc = "rollback"
  /\ Goes(s, Answer(k, 500))
  /\ Leaves(k.client, Release(Ended(clients[k.client])))
  /\ UNCHANGED tables

\* a statement rejected, by a constraint or by the store failing: the handler
\* goes to its catch
Throws(k, why) == [k EXCEPT !.pc = "rollback", !.failed = why]

\* ---- POST /api/auth/signup
Usernames == {"ann", "bob"}

Emails == {"ann@x.io", "bob@x.io"}

\* valid: all fields present, the email well formed, the password long enough
SignupBodies == [username : Usernames, email : Emails, valid : BOOLEAN]

\* users.username and users.email are UNIQUE: no constraint at all
NoConstraint(c, body) == FALSE

\* users.username and users.email are UNIQUE
UniqueViolation(c, body) ==
  \E u \in Seen(c, "users") : u.username = body.username \/ u.email = body.email

Signup(s) ==
  LET k == calls[s]
      c == k.client
      conn == clients[c]
      \* SELECT username, email FROM users WHERE username = $1 OR email = $2
      userCheck == {u \in Seen(c, "users") :
                      u.username = k.body.username \/ u.email = k.body.email}
  IN
  /\ UNCHANGED readers
  /\ \/ \E b \in SignupBodies : Arrives(s, "signup", 0, b)
     \/ /\ k.handler = "signup" /\ k.pc = "connect"
        /\ \E d \in {x \in DOMAIN clients : ~clients[x].held} :
             IF ~k.body.valid
             THEN Goes(s, Answer(k, 400)) /\ UNCHANGED clients
             ELSE /\ Goes(s, [k EXCEPT !.pc = "begin", !.client = d])
                  /\ Leaves(d, [clients[d] EXCEPT !.held = TRUE])
        /\ UNCHANGED tables
     \/ /\ k.handler = "signup" /\ k.pc = "begin"
        /\ \E ok \in BOOLEAN :
             IF ok THEN Goes(s, [k EXCEPT !.pc = "check"]) /\ Leaves(c, Begin(conn))
             ELSE Goes(s, Throws(k, "store")) /\ UNCHANGED clients
        /\ UNCHANGED tables
     \/ /\ k.handler = "signup" /\ k.pc = "check"
        /\ \E ok \in BOOLEAN :
             IF ~ok THEN Goes(s, Throws(k, "store")) /\ UNCHANGED clients
             ELSE IF userCheck # {}
             THEN Goes(s, Answer(k, 400)) /\ Leaves(c, Release(conn))
             ELSE Goes(s, [k EXCEPT !.pc = "insert"]) /\ UNCHANGED clients
        /\ UNCHANGED tables
     \/ /\ k.handler = "signup" /\ k.pc = "insert"
        /\ \A u \in PendingElsewhere(c, "users") :
             u.username # k.body.username /\ u.email # k.body.email
        /\ \E ok \in BOOLEAN :
             IF ~ok THEN Goes(s, Throws(k, "store")) /\ UNCHANGED <<clients, tables>>
             ELSE IF UniqueViolation(c, k.body)
             THEN Goes(s, Throws(k, "unique")) /\ UNCHANGED <<clients, tables>>
             ELSE LET row == [id |-> NextId("users"), username |-> k.body.username,
                              email |-> k.body.email]
                  IN /\ Goes(s, [k EXCEPT !.pc = "prefs", !.held = <<row.id>>])
                     /\ Leaves(c, Written(conn, {<<"users", row>>}, {}))
                     /\ WriteThrough(conn, {<<"users", row>>}, {})
     \/ /\ k.handler = "signup" /\ k.pc = "prefs"
        /\ \E ok \in BOOLEAN :
             IF ~ok THEN Goes(s, Throws(k, "store")) /\ UNCHANGED <<clients, tables>>
             ELSE LET row == [user_id |-> k.held[1]]
                  IN /\ Goes(s, [k EXCEPT !.pc = "commit"])
                     /\ Leaves(c, Written(conn, {<<"user_preferences", row>>}, {}))
                     /\ WriteThrough(conn, {<<"user_preferences", row>>}, {})
     \/ /\ k.handler = "signup" /\ k.pc = "commit"
        /\ \E ok \in BOOLEAN :
             IF ~ok THEN Goes(s, Throws(k, "store")) /\ UNCHANGED <<clients, tables>>
             ELSE /\ Goes(s, Answer(k, 201))
                  /\ Leaves(c, Release(Ended(conn)))
                  /\ Store(conn.ins, conn.del)

\* the users table is empty or holds ann with her preferences
InitSignup ==
  /\ \E U \in {{}, {[id |-> 1, username |-> "ann", email |-> "ann@x.io"]}} :
       /\ users = U
       /\ user_preferences = {[user_id |-> u.id] : u \in U}
  /\ daily_goals = {} /\ meal_templates = {}
  /\ workout_logs = {} /\ workout_exercises = {} /\ food_logs = {}
  /\ now = 0
  /\ clients = [c \in Connections |-> FreeConnection]
  /\ calls = [s \in {1, 2} |-> NoCall]
  /\ ReadersIdle

Rollbacks == \E s \in DOMAIN calls : CatchRollback(s) /\ UNCHANGED readers

Signups == \E s \in DOMAIN calls : Signup(s)

NextSignup == Signups \/ Rollbacks

SpecSignup == InitSignup /\ [][NextSignup]_vars

\* no two rows of users share a username or an email
UsersUnique ==
  \A u, v \in users : u # v => u.username # v.username /\ u.email # v.email

\* C28: a signup whose username or email is that of a user already stored adds
\* no user row, and however concurrent signups interleave users never holds
\* two rows with the same username or the same email: every step that changes
\* users adds one row whose username and email no stored row had.
C28_SignupKeepsUsersUnique ==
  /\ UsersUnique
  /\ [][/\ UsersUnique'
        /\ users' # users =>
             \E r \in users' \ users :
               /\ users' = users \cup {r}
               /\ \A u \in users : u.username # r.username /\ u.email # r.email]_vars

\* two signups with the same username passed the check together; one was
\* stored, the other rejected by the constraint
C28_Witness ==
  /\ calls[1].status = 201 /\ calls[2].status = 500 /\ calls[2].failed = "unique"
  /\ calls[1].body.username = calls[2].body.username
  /\ \E u \in users : u.username = calls[1].body.username

\* ---- what the foreign keys to users(id) make a statement wait for or reject
\* another connection has deleted the users row in a block still open
UserDeletedElsewhere(c, userId) ==
  \E d \in DOMAIN clients \ {c} : \E w \in clients[d].del :
    w[1] = "users" /\ w[2].id = userId

\* another connection has inserted a row of this user in a block still open
UserReferencedElsewhere(c, userId) ==
  \E d \in DOMAIN clients \ {c} : \E w \in clients[d].ins :
    w[1] # "users" /\ w[1] # "workout_exercises" /\ w[2].user_id = userId

\* const client = await pool.connect(), and on to the next await
Connect(s, next) ==
  \E d \in {x \in DOMAIN clients : ~clients[x].held} :
    /\ Goes(s, [calls[s] EXCEPT !.pc = next, !.client = d])
    /\ Leaves(d, [clients[d] EXCEPT !.held = TRUE])

\* a response and the finally, with whatever block the connection is in
Returns(s, n) ==
  /\ Goes(s, Answer(calls[s], n))
  /\ Leaves(calls[s].client, Release(clients[calls[s].client]))

\* ---- POST /api/nutrition/log; body.complete: food_name, serving_size and
\*      nutrients are all there
LogFood(s) ==
  LET k == calls[s]
      c == k.client
      conn == clients[c]
  IN
  /\ UNCHANGED readers
  /\ \/ \E u \in Users, complete \in BOOLEAN :
          Arrives(s, "logFood", u, [complete |-> complete])
     \/ /\ k.handler = "logFood" /\ k.pc = "connect"
        /\ Connect(s, "begin")
        /\ UNCHANGED tables
     \/ /\ k.handler = "logFood" /\ k.pc = "begin"
        /\ \E ok \in BOOLEAN :
             IF ~ok THEN Goes(s, Throws(k, "store")) /\ UNCHANGED clients
             ELSE IF ~k.body.complete
             THEN Goes(s, Answer(k, 400)) /\ Leaves(c, Release(Begin(conn)))
             ELSE Goes(s, [k EXCEPT !.pc = "insert"]) /\ Leaves(c, Begin(conn))
        /\ UNCHANGED tables
     \/ /\ k.handler = "logFood" /\ k.pc = "insert"
        /\ ~UserDeletedElsewhere(c, k.userId)
        /\ \E ok \in BOOLEAN, f \in Foods :
             IF ~ok THEN Goes(s, Throws(k, "store")) /\ UNCHANGED <<clients, tables>>
             ELSE IF \A u \in Seen(c, "users") : u.id # k.userId
             THEN Goes(s, Throws(k, "foreign key")) /\ UNCHANGED <<clients, tables>>
             ELSE LET row == [id |-> NextId("food_logs"), user_id |-> k.userId,
                              logged_at |-> now, calories |-> f.calories,
                              protein |-> f.protein, carbs |-> f.carbs, fats |-> f.fats]
                  IN /\ Goes(s, [k EXCEPT !.pc = "commit"])
                     /\ Leaves(c, Written(conn, {<<"food_logs", row>>}, {}))
                     /\ WriteThrough(conn, {<<"food_logs", row>>}, {})
     \/ /\ k.handler = "logFood" /\ k.pc = "commit"
        /\ \E ok \in BOOLEAN :
             IF ~ok THEN Goes(s, Throws(k, "store")) /\ UNCHANGED <<clients, tables>>
             ELSE /\ Goes(s, Answer(k, 201))
                  /\ Leaves(c, Release(Ended(conn)))
                  /\ Store(conn.ins, conn.del)

\* ---- DELETE /api/nutrition/logs/:id
\* the ownership test passes everyone
AnyoneOwns(f, userId) == FALSE

\* checkOwnership.rows[0].user_id !== req.user.userId
NotOwner(f, userId) == f.user_id # userId

DeleteLog(s) ==
  LET k == calls[s]
      c == k.client
      conn == clients[c]
      \* SELECT user_id FROM food_logs WHERE id = $1
      checkOwnership == {f \in Seen(c, "food_logs") : f.id = k.body.id}
      \* DELETE FROM food_logs WHERE id = $1 AND user_id = $2
      deleted == {<<"food_logs", f>> : f \in {x \in Seen(c, "food_logs") :
                                                 x.id = k.body.id /\ x.user_id = k.userId}}
  IN
  /\ UNCHANGED readers
  /\ \/ \E u \in Users, id \in 1..3 : Arrives(s, "deleteLog", u, [id |-> id])
     \/ /\ k.handler = "deleteLog" /\ k.pc = "connect"
        /\ Connect(s, "check")
        /\ UNCHANGED tables
     \/ /\ k.handler = "deleteLog" /\ k.pc = "check"
        /\ \E ok \in BOOLEAN :
             IF ~ok THEN Returns(s, 500)
             ELSE IF checkOwnership = {} THEN Returns(s, 404)
             ELSE IF \E f \in checkOwnership : NotOwner(f, k.userId) THEN Returns(s, 403)
             ELSE Goes(s, [k EXCEPT !.pc = "delete"]) /\ UNCHANGED clients
        /\ UNCHANGED tables
     \/ /\ k.handler = "deleteLog" /\ k.pc = "delete"
        /\ \E ok \in BOOLEAN :
             IF ~ok THEN Returns(s, 500) /\ UNCHANGED tables
             ELSE /\ Goes(s, Answer(k, 200))
                  /\ Leaves(c, Release(Written(conn, {}, deleted)))
                  /\ WriteThrough(conn, {}, deleted)

\* ---- POST /api/nutrition/templates: of the two routes registered for it the
\*      router runs the first, which answers without calling next(); it sends
\*      one INSERT through pool.query. body.name: a name is there; body.foods:
\*      what foods is. meal_templates.name and .foods are NOT NULL, and
\*      JSON.stringify(undefined) is sent as NULL
PostTemplate(s) ==
  LET k == calls[s] IN
  /\ UNCHANGED readers
  /\ \/ \E u \in Users, name \in BOOLEAN, foods \in {"missing", "array", "object"} :
          Arrives(s, "postTemplate", u, [name |-> name, foods |-> foods])
     \/ /\ k.handler = "postTemplate" /\ k.pc = "connect"
        /\ \E d \in {x \in DOMAIN clients : ~clients[x].held}, ok \in BOOLEAN :
             /\ ~UserDeletedElsewhere(d, k.userId)
             /\ IF ~ok \/ ~k.body.name \/ k.body.foods = "missing"
                       \/ \A u \in Seen(d, "users") : u.id # k.userId
                THEN Goes(s, Answer(k, 500)) /\ UNCHANGED <<clients, tables>>
                ELSE LET row == [id |-> NextId("meal_templates"), user_id |-> k.userId,
                                 name |-> "new", foods |-> k.body.foods]
                     IN /\ Goes(s, Answer(k, 201))
                        /\ Leaves(d, Written(clients[d], {<<"meal_templates", row>>}, {}))
                        /\ WriteThrough(clients[d], {<<"meal_templates", row>>}, {})

\* ---- DELETE /api/nutrition/templates/:id and PUT /api/nutrition/templates/:id;
\*      body.valid (PUT): name and a foods array are there
ChangeTemplate(s) ==
  LET k == calls[s]
      c == k.client
      conn == clients[c]
      \* SELECT id FROM meal_templates WHERE id = $1 AND user_id = $2
      checkResult == {t \in Seen(c, "meal_templates") :
                        t.id = k.body.id /\ t.user_id = k.userId}
      gone == {<<"meal_templates", t>> : t \in checkResult}
      put == {<<"meal_templates", [t EXCEPT !.name = "put"]>> : t \in checkResult}
  IN
  /\ UNCHANGED readers
  /\ \/ \E u \in Users, id \in 1..2 :
          \/ Arrives(s, "deleteTemplate", u, [id |-> id, valid |-> TRUE])
          \/ \E valid \in BOOLEAN : Arrives(s, "putTemplate", u, [id |-> id, valid |-> valid])
     \/ /\ k.handler \in {"deleteTemplate", "putTemplate"} /\ k.pc = "connect"
        /\ Connect(s, "begin")
        /\ UNCHANGED tables
     \/ /\ k.handler \in {"deleteTemplate", "putTemplate"} /\ k.pc = "begin"
        /\ \E ok \in BOOLEAN :
             IF ~ok THEN Goes(s, Throws(k, "store")) /\ UNCHANGED clients
             ELSE IF ~k.body.valid
             THEN Goes(s, Answer(k, 400)) /\ Leaves(c, Release(Begin(conn)))
             ELSE Goes(s, [k EXCEPT !.pc = "check"]) /\ Leaves(c, Begin(conn))
        /\ UNCHANGED tables
     \/ /\ k.handler \in {"deleteTemplate", "putTemplate"} /\ k.pc = "check"
        /\ \E ok \in BOOLEAN :
             IF ~ok THEN Goes(s, Throws(k, "store")) /\ UNCHANGED clients
             ELSE IF checkResult = {} THEN Returns(s, 404)
             ELSE Goes(s, [k EXCEPT !.pc = "change"]) /\ UNCHANGED clients
        /\ UNCHANGED tables
     \/ /\ k.handler \in {"deleteTemplate", "putTemplate"} /\ k.pc = "change"
        /\ \E ok \in BOOLEAN :
             IF ~ok THEN Goes(s, Throws(k, "store")) /\ UNCHANGED <<clients, tables>>
             ELSE LET ins == IF k.handler = "putTemplate" THEN put ELSE {}
                  IN /\ Goes(s, [k EXCEPT !.pc = "commit"])
                     /\ Leaves(c, Written(conn, ins, gone))
                     /\ WriteThrough(conn, ins, gone)
     \/ /\ k.handler \in {"deleteTemplate", "putTemplate"} /\ k.pc = "commit"
        /\ \E ok \in BOOLEAN :
             IF ~ok THEN Goes(s, Throws(k, "store")) /\ UNCHANGED <<clients, tables>>
             ELSE /\ Goes(s, Answer(k, 200))
                  /\ Leaves(c, Release(Ended(conn)))
                  /\ Store(conn.ins, conn.del)

\* ---- POST /api/workout/log
Exercise(name, sets) == [name |-> name, sets |-> sets, reps |-> 10, weight |-> 0]

\* three ways to pass the validation, the last with a weight that
\* workout_exercises.weight DECIMAL(5,2) cannot hold, and three to fail it
WorkoutBodies ==
  {[name |-> "Legs", duration |-> 45, exercises |-> <<Exercise("Squat", 3)>>],
   [name |-> "Legs", duration |-> 45,
    exercises |-> <<Exercise("Squat", 3), Exercise("Lunge", 2)>>],
   [name |-> "Legs", duration |-> 45,
    exercises |-> <<Exercise("Squat", 3), [Exercise("Lunge", 2) EXCEPT !.weight = 1000]>>],
   [name |-> "Legs", duration |-> 0, exercises |-> <<Exercise("Squat", 3)>>],
   [name |-> "Legs", duration |-> 45, exercises |-> <<>>],
   [name |-> "Legs", duration |-> 45,
    exercises |-> <<Exercise("Squat", 3), Exercise("Lunge", 0)>>]}

LogWorkout(s) ==
  LET k == calls[s]
      c == k.client
      conn == clients[c]
      b == k.body
      valid == /\ b.name # "" /\ b.duration > 0 /\ Len(b.exercises) > 0
               /\ \A i \in 1..Len(b.exercises) :
                    /\ b.exercises[i].name # "" /\ b.exercises[i].sets > 0
                    /\ b.exercises[i].reps > 0 /\ b.exercises[i].weight >= 0
  IN
  /\ UNCHANGED readers
  /\ \/ \E u \in Users, body \in WorkoutBodies : Arrives(s, "logWorkout", u, body)
     \/ /\ k.handler = "logWorkout" /\ k.pc = "connect"
        /\ IF valid THEN Connect(s, "begin")
           ELSE /\ \E d \in DOMAIN clients : ~clients[d].held
                /\ Goes(s, Answer(k, 400)) /\ UNCHANGED clients
        /\ UNCHANGED tables
     \/ /\ k.handler = "logWorkout" /\ k.pc = "begin"
        /\ \E ok \in BOOLEAN :
             IF ~ok THEN Goes(s, Throws(k, "store")) /\ UNCHANGED clients
             ELSE Goes(s, [k EXCEPT !.pc = "workout"]) /\ Leaves(c, Begin(conn))
        /\ UNCHANGED tables
     \/ /\ k.handler = "logWorkout" /\ k.pc = "workout"
        /\ ~UserDeletedElsewhere(c, k.userId)
        /\ \E ok \in BOOLEAN :
             IF ~ok THEN Goes(s, Throws(k, "store")) /\ UNCHANGED <<clients, tables>>
             ELSE IF \A u \in Seen(c, "users") : u.id # k.userId
             THEN Goes(s, Throws(k, "foreign key")) /\ UNCHANGED <<clients, tables>>
             ELSE LET row == [id |-> NextId("workout_logs"), user_id |-> k.userId,
                              date |-> DayOf(now), duration |-> b.duration]
                  IN /\ Goes(s, [k EXCEPT !.pc = "exercise", !.held = <<row.id, 1>>])
                     /\ Leaves(c, Written(conn, {<<"workout_logs", row>>}, {}))
                     /\ WriteThrough(conn, {<<"workout_logs", row>>}, {})
     \/ /\ k.handler = "logWorkout" /\ k.pc = "exercise"
        /\ \E ok \in BOOLEAN :
             IF ~ok THEN Goes(s, Throws(k, "store")) /\ UNCHANGED <<clients, tables>>
             ELSE IF b.exercises[k.held[2]].weight >= 1000
             THEN Goes(s, Throws(k, "overflow")) /\ UNCHANGED <<clients, tables>>
             ELSE LET i == k.held[2]
                      row == [id |-> NextId("workout_exercises"), workout_id |-> k.held[1],
                              exercise_name |-> b.exercises[i].name,
                              weight |-> b.exercises[i].weight]
                  IN /\ Goes(s, IF i < Len(b.exercises)
                                THEN [k EXCEPT !.held = <<k.held[1], i + 1>>]
                                ELSE [k EXCEPT !.pc = "commit"])
                     /\ Leaves(c, Written(conn, {<<"workout_exercises", row>>}, {}))
                     /\ WriteThrough(conn, {<<"workout_exercises", row>>}, {})
     \/ /\ k.handler = "logWorkout" /\ k.pc = "commit"
        /\ \E ok \in BOOLEAN :
             IF ~ok THEN Goes(s, Throws(k, "store")) /\ UNCHANGED <<clients, tables>>
             ELSE /\ Goes(s, Answer(k, 201))
                  /\ Leaves(c, Release(Ended(conn)))
                  /\ Store(conn.ins, conn.del)

\* ---- DELETE /api/user/account
\* the five DELETEs with no ON DELETE CASCADE behind them
AccountDeletesNoCascade(c, userId, i) ==
  LET Own(name) == {<<name, r>> : r \in {x \in Seen(c, name) : x.user_id = userId}}
  IN CASE i = 1 -> Own("food_logs")
       [] i = 2 -> Own("workout_logs")
       [] i = 3 -> Own("daily_goals")
       [] i = 4 -> Own("user_preferences")
       [] OTHER -> {<<"users", u>> : u \in {x \in Seen(c, "users") : x.id = userId}}

\* the rows each of its five DELETEs removes,
\*      with the rows ON DELETE CASCADE takes along
AccountDeletes(c, userId, i) ==
  LET Own(name) == {<<name, r>> : r \in {x \in Seen(c, name) : x.user_id = userId}}
      workoutIds == {w[2].id : w \in Own("workout_logs")}
      exercises == {<<"workout_exercises", e>> :
                      e \in {x \in Seen(c, "workout_exercises") : x.workout_id \in workoutIds}}
  IN CASE i = 1 -> Own("food_logs")
       [] i = 2 -> Own("workout_logs") \cup exercises
       [] i = 3 -> Own("daily_goals")
       [] i = 4 -> Own("user_preferences")
       [] OTHER -> {<<"users", u>> : u \in {x \in Seen(c, "users") : x.id = userId}}
                    \cup Own("user_preferences") \cup Own("daily_goals")
                    \cup Own("food_logs") \cup Own("meal_templates")

DeleteAccount(s) ==
  LET k == calls[s]
      c == k.client
      conn == clients[c]
  IN
  /\ UNCHANGED readers
  /\ \/ \E u \in Users : Arrives(s, "deleteAccount", u, <<>>)
     \/ /\ k.handler = "deleteAccount" /\ k.pc = "connect"
        /\ Connect(s, "begin")
        /\ UNCHANGED tables
     \/ /\ k.handler = "deleteAccount" /\ k.pc = "begin"
        /\ \E ok \in BOOLEAN :
             IF ~ok THEN Goes(s, Throws(k, "store")) /\ UNCHANGED clients
             ELSE Goes(s, [k EXCEPT !.pc = "delete", !.held = <<1>>]) /\ Leaves(c, Begin(conn))
        /\ UNCHANGED tables
     \/ /\ k.handler = "deleteAccount" /\ k.pc = "delete"
        /\ k.held[1] = 5 => ~UserReferencedElsewhere(c, k.userId)
        /\ \E ok \in BOOLEAN :
             IF ~ok THEN Goes(s, Throws(k, "store")) /\ UNCHANGED <<clients, tables>>
             ELSE IF k.held[1] = 5 /\ \E w \in Seen(c, "workout_logs") : w.user_id = k.userId
             THEN Goes(s, Throws(k, "foreign key")) /\ UNCHANGED <<clients, tables>>
             ELSE LET gone == AccountDeletes(c, k.userId, k.held[1])
                  IN /\ Goes(s, IF k.held[1] < 5 THEN [k EXCEPT !.held = <<k.held[1] + 1>>]
                                ELSE [k EXCEPT !.pc = "commit"])
                     /\ Leaves(c, Written(conn, {}, gone))
                     /\ WriteThrough(conn, {}, gone)
     \/ /\ k.handler = "deleteAccount" /\ k.pc = "commit"
        /\ \E ok \in BOOLEAN :
             IF ~ok THEN Goes(s, Throws(k, "store")) /\ UNCHANGED <<clients, tables>>
             ELSE /\ Goes(s, Answer(k, 200))
                  /\ Leaves(c, Release(Ended(conn)))
                  /\ Store(conn.ins, conn.del)

\* ---- GET /api/user/reminders
\* a statement the store fails: the catch answers 500, then the finally
Failed(s) ==
  /\ Goes(s, [Answer(calls[s], 500) EXCEPT !.failed = "store"])
  /\ Leaves(calls[s].client, Release(clients[calls[s].client]))

\* the two last-entry SELECTs stand between the preferences SELECT and the
\* INSERT and change nothing
GetReminders(s) ==
  LET k == calls[s]
      c == k.client
      conn == clients[c]
      prefs == {p \in Seen(c, "user_preferences") : p.user_id = k.userId}
  IN
  /\ UNCHANGED readers
  /\ \/ \E u \in Users : Arrives(s, "getReminders", u, <<>>)
     \/ /\ k.handler = "getReminders" /\ k.pc = "connect"
        /\ Connect(s, "user")
        /\ UNCHANGED tables
     \/ /\ k.handler = "getReminders" /\ k.pc = "user"
        /\ \E ok \in BOOLEAN :
             IF ~ok THEN Failed(s)
             ELSE IF \A u \in Seen(c, "users") : u.id # k.userId THEN Returns(s, 404)
             ELSE Goes(s, [k EXCEPT !.pc = "prefs"]) /\ UNCHANGED clients
        /\ UNCHANGED tables
     \/ /\ k.handler = "getReminders" /\ k.pc = "prefs"
        /\ \E ok \in BOOLEAN :
             IF ~ok THEN Failed(s)
             ELSE Goes(s, [k EXCEPT !.pc = "last", !.held = <<Cardinality(prefs)>>])
                  /\ UNCHANGED clients
        /\ UNCHANGED tables
     \/ /\ k.handler = "getReminders" /\ k.pc = "last"
        /\ \E ok \in BOOLEAN :
             IF ~ok THEN Failed(s)
             ELSE IF k.held[1] # 0 THEN Returns(s, 200)
             ELSE Goes(s, [k EXCEPT !.pc = "insert"]) /\ UNCHANGED clients
        /\ UNCHANGED tables
     \/ /\ k.handler = "getReminders" /\ k.pc = "insert"
        /\ ~UserDeletedElsewhere(c, k.userId)
        /\ \A p \in PendingElsewhere(c, "user_preferences") : p.user_id # k.userId
        /\ \E ok \in BOOLEAN :
             IF ~ok THEN Failed(s) /\ UNCHANGED tables
             ELSE IF prefs # {} \/ \A u \in Seen(c, "users") : u.id # k.userId
             THEN /\ Goes(s, [Answer(k, 500) EXCEPT !.failed = "unique"])
                  /\ Leaves(c, Release(conn))
                  /\ UNCHANGED tables
             ELSE LET row == [user_id |-> k.userId]
                  IN /\ Goes(s, Answer(k, 200))
                     /\ Leaves(c, Release(Written(conn, {<<"user_preferences", row>>}, {})))
                     /\ WriteThrough(conn, {<<"user_preferences", row>>}, {})

\* ---- the nutrition routes with two calls in flight: both users, a food log
\*      of each, and one template
InitNutrition ==
  /\ users = {[id |-> u] : u \in Users}
  /\ user_preferences = {} /\ daily_goals = {}
  /\ workout_logs = {} /\ workout_exercises = {}
  /\ food_logs = {[id |-> u, user_id |-> u, logged_at |-> 0, calories |-> 500,
                   protein |-> 30, carbs |-> 60, fats |-> 20] : u \in Users}
  /\ meal_templates = {[id |-> 1, user_id |-> 1, name |-> "old", foods |-> "array"]}
  /\ now = 0
  /\ clients = [c \in Connections |-> FreeConnection]
  /\ calls = [s \in {1, 2} |-> NoCall]
  /\ ReadersIdle

NextNutrition ==
  \/ \E s \in DOMAIN calls : LogFood(s)
  \/ \E s \in DOMAIN calls : DeleteLog(s)
  \/ \E s \in DOMAIN calls : PostTemplate(s)
  \/ \E s \in DOMAIN calls : ChangeTemplate(s)
  \/ Rollbacks

SpecNutrition == InitNutrition /\ [][NextNutrition]_vars

\* C22: no handler returns a connection to the pool while a transaction it
\* opened with BEGIN is still open: a connection that is back in the pool is
\* in no transaction block.
C22_ReleasedOutsideTransaction ==
  \A c \in DOMAIN clients : ~clients[c].held => ~clients[c].tx

\* the call in slot s is answered in this step
Answers(s) == calls[s].status = 0 /\ calls'[s].status # 0

C27_TemplateInputValidated ==
  [][\A s \in DOMAIN calls :
       calls[s].handler = "postTemplate" /\ Answers(s)
         /\ (~calls[s].body.name \/ calls[s].body.foods # "array") =>
         calls'[s].status = 400 /\ meal_templates' = meal_templates]_vars

\* ---- workouts logged while accounts are deleted, two calls in flight: both
\*      users with their preferences and a row in every other table
InitAccount ==
  /\ users = {[id |-> u] : u \in Users}
  /\ user_preferences = {[user_id |-> u] : u \in Users}
  /\ daily_goals = {[user_id |-> u] : u \in Users}
  /\ food_logs = {[id |-> u, user_id |-> u, logged_at |-> 0, calories |-> 500,
                   protein |-> 30, carbs |-> 60, fats |-> 20] : u \in Users}
  /\ workout_logs = {[id |-> u, user_id |-> u, date |-> 0, duration |-> 30] : u \in Users}
  /\ workout_exercises = {[id |-> u, workout_id |-> u, exercise_name |-> "Squat",
                           weight |-> 0] : u \in Users}
  /\ meal_templates = {[id |-> u, user_id |-> u, name |-> "old", foods |-> "array"] :
                         u \in Users}
  /\ now = 0
  /\ clients = [c \in Connections |-> FreeConnection]
  /\ calls = [s \in {1, 2} |-> NoCall]
  /\ ReadersIdle

NextAccount ==
  \/ \E s \in DOMAIN calls : LogWorkout(s)
  \/ \E s \in DOMAIN calls : DeleteAccount(s)
  \/ Rollbacks

SpecAccount == InitAccount /\ [][NextAccount]_vars

\* C24: logging a workout is atomic. The step that answers 201 stores one
\* workout row of the caller and one exercise row for each exercise of the
\* body, all with that workout's id, and nothing else; every other step of a
\* POST /workout/log (a validation 400, an insert, a rejected insert, the
\* rollback and its 500) leaves workout_logs and workout_exercises unchanged.
C24_WorkoutLoggedAtomically ==
  [][\A s \in DOMAIN calls :
       LET k == calls[s] IN
       calls'[s] # k /\ calls'[s].handler = "logWorkout" =>
         IF calls'[s].status = 201
         THEN \E w \in workout_logs' \ workout_logs :
                LET added == workout_exercises' \ workout_exercises IN
                /\ workout_logs' = workout_logs \cup {w}
                /\ w.user_id = k.userId /\ w.duration = k.body.duration
                /\ workout_exercises \subseteq workout_exercises'
                /\ \A e \in added : e.workout_id = w.id
                /\ Cardinality(added) = Len(k.body.exercises)
                /\ {e.exercise_name : e \in added}
                     = {k.body.exercises[i].name : i \in 1..Len(k.body.exercises)}
         ELSE /\ workout_logs' = workout_logs
              /\ workout_exercises' = workout_exercises]_vars

\* one workout with two exercises was stored; the other call got its workout
\* and first exercise in, had the second rejected, and left nothing behind
C24_Witness ==
  /\ calls[1].handler = "logWorkout" /\ calls[1].status = 201
  /\ Len(calls[1].body.exercises) = 2
  /\ calls[2].handler = "logWorkout" /\ calls[2].status = 500
  /\ calls[2].failed = "overflow"
  /\ Cardinality(workout_logs) = 3 /\ Cardinality(workout_exercises) = 4

\* the rows of a table that belong to a user; an exercise row belongs to the
\* owner of its workout
OwnedRows(name, userId, T, W) ==
  IF name = "users" THEN {r \in T : r.id = userId}
  ELSE IF name = "workout_exercises"
  THEN {r \in T : \E w \in W : w.id = r.workout_id /\ w.user_id = userId}
  ELSE {r \in T : r.user_id = userId}

TableNames ==
  {"users", "user_preferences", "daily_goals", "food_logs", "workout_logs",
   "workout_exercises", "meal_templates"}

\* C25: account deletion is all-or-nothing and complete. The step that answers
\* DELETE /account with 200 leaves no row of the caller in users,
\* user_preferences, daily_goals, food_logs, workout_logs, workout_exercises
\* or meal_templates and leaves every other user's rows as they were; every
\* other step of the call, its failures and rollback included, changes no
\* table.
C25_AccountDeletedAllOrNothing ==
  [][\A s \in DOMAIN calls :
       LET k == calls[s] IN
       calls'[s] # k /\ calls'[s].handler = "deleteAccount" =>
         IF calls'[s].status = 200
         THEN \A name \in TableNames :
                /\ OwnedRows(name, k.userId, Table(name)', workout_logs) = {}
                /\ \A u \in Users \ {k.userId} :
                     OwnedRows(name, u, Table(name)', workout_logs)
                       = OwnedRows(name, u, Table(name), workout_logs)
         ELSE UNCHANGED tables]_vars

\* user 1's account is gone with everything in it while user 2, whose own
\* deletion failed, still has a row in every table
C25_Witness ==
  /\ calls[1].handler = "deleteAccount" /\ calls[1].userId = 1 /\ calls[1].status = 200
  /\ calls[2].handler = "deleteAccount" /\ calls[2].userId = 2 /\ calls[2].status = 500
  /\ \A name \in TableNames :
       /\ OwnedRows(name, 1, Table(name), workout_logs) = {}
       /\ OwnedRows(name, 2, Table(name), workout_logs) # {}

\* ---- GET /reminders, two calls in flight: user 1 has no preferences row,
\*      user 2 has one
InitReminders ==
  /\ users = {[id |-> u] : u \in Users}
  /\ user_preferences = {[user_id |-> 2]}
  /\ daily_goals = {} /\ meal_templates = {}
  /\ workout_logs = {} /\ workout_exercises = {} /\ food_logs = {}
  /\ now = 0
  /\ clients = [c \in Connections |-> FreeConnection]
  /\ calls = [s \in {1, 2} |-> NoCall]
  /\ ReadersIdle

NextReminders == \E s \in DOMAIN calls : GetReminders(s)

SpecReminders == InitReminders /\ [][NextReminders]_vars

\* C29: for an existing user with no preferences row, every interleaving of
\* two concurrent GET /reminders requests ends with both answered 200 and
\* exactly one user_preferences row for that user: once both calls of user 1
\* are over, both statuses are 200 and user_preferences holds one row of
\* user 1.
C29_BothRemindersAnswered ==
  (\A s \in DOMAIN calls :
     /\ calls[s].handler = "getReminders" /\ calls[s].userId = 1
     /\ calls[s].pc = "done" /\ calls[s].failed # "store") =>
    /\ \A s \in DOMAIN calls : calls[s].status = 200
    /\ Cardinality({p \in user_preferences : p.user_id = 1}) = 1

====
